---- MODULE Spec2Model ----
(***************************************************************************)
(* State-machine model of the packet command-line utilities                *)
(* (src/packet/commands.py).  The relational store is one record of        *)
(* tables; every CLI command is one action that runs the whole handler     *)
(* against the store and commits (or aborts without committing).           *)
(***************************************************************************)
EXTENDS Integers, Sequences, FiniteSets, TLC

VARIABLES db, now, lapsed

vars == <<db, now, lapsed>>

(* ------------------------------ bounds --------------------------------- *)
NumFreshmen == 2
NumMembers == 2
MaxPackets == 2
MaxRows == 2
MaxTicks == 2

(* --------------------------- program constants ------------------------- *)
packet_start_time == 19
packet_end_time == 21
SeasonDays == 14
HoursPerDay == 24

(* ------------------------------ input sets ----------------------------- *)
UsernamePool == <<"alice1", "bob1", "carol1", "dave1">>
Usernames == {UsernamePool[i] : i \in 1..NumFreshmen}
MemberPool == <<"mbr1", "mbr2", "mbr3", "mbr4">>
Members == {MemberPool[i] : i \in 1..NumMembers}
TickHours == 200
StartDates == {1}
ExtendDates == {0, 20}

(* A CSV cell is its text plus the surrounding whitespace that strip()     *)
(* removes.                                                                *)
Cell(lead, text, trail) == [lead |-> lead, text |-> text, trail |-> trail]
Strip(cell) == cell.text

FlagCells == {Cell(0, "TRUE", 1), Cell(0, "FALSE", 0), Cell(0, "true", 0)}
UserCells == {Cell(0, u, 0) : u \in Usernames}
CsvRows ==
    {<<n, f, Cell(0, "x", 0), u>> : n \in {Cell(0, "Alice", 0)}, f \in FlagCells, u \in UserCells}
    \cup {<<Cell(1, "Bob", 0), Cell(0, "TRUE", 0), Cell(0, "x", 0), Cell(0, UsernamePool[1], 1)>>}
(* the roster of the example: Alice on floor, Bob not *)
ExampleRoster ==
    <<<<Cell(0, "Alice", 0), Cell(0, "TRUE", 0), Cell(0, "x", 0), Cell(0, "alice1", 0)>>,
      <<Cell(0, "Bob", 0), Cell(0, "FALSE", 0), Cell(0, "x", 0), Cell(0, "bob1", 0)>>>>
Rosters == UNION {[1..k -> CsvRows] : k \in 0..MaxRows} \cup {ExampleRoster}

(* ------------------------------ time ----------------------------------- *)
Combine(date, t) == date * HoursPerDay + t

(* ------------------------------ roster parsing ------------------------- *)
(* the on-floor column is read without regard to case *)
CSVFreshmanAnyCase(row) ==
    [name |-> Strip(row[1]),
     rit_username |-> Strip(row[4]),
     onfloor |-> Strip(row[2]) \in {"TRUE", "true"}]

CSVFreshman(row) ==
    [name |-> Strip(row[1]),
     rit_username |-> Strip(row[4]),
     onfloor |-> Strip(row[2]) = "TRUE"]

parse_csv(rows) ==
    LET key(i) == CSVFreshman(rows[i]).rit_username
        keys == {key(i) : i \in DOMAIN rows}
        last(u) == CHOOSE i \in DOMAIN rows : key(i) = u /\ \A j \in DOMAIN rows : key(j) = u => j <= i
    IN [u \in keys |-> CSVFreshman(rows[last(u)])]

(* ------------------------------ the store ------------------------------ *)
EmptyStore ==
    [freshman |-> {}, packet |-> {}, signature_upper |-> {},
     signature_fresh |-> {}, signature_misc |-> {}]

FreshmanRow(u, n, f) == [rit_username |-> u, name |-> n, onfloor |-> f]
PacketRow(id, u, start, end) == [id |-> id, freshman_username |-> u, start |-> start, end |-> end]
FreshSignature(pid, u) == [packet_id |-> pid, freshman_username |-> u, signed |-> FALSE]
MiscSignature(pid, m) == [packet_id |-> pid, member |-> m]

OnFloor(s) == {f.rit_username : f \in {g \in s.freshman : g.onfloor}}

(* Packet.query.filter(Packet.end > datetime.now()) *)
OpenOrFuture(s, t) == {p \in s.packet : p.end > t}

(* Packet.is_open() *)
is_open(p, t) == t < p.end

(* packet.fresh_signatures / upper_signatures / misc_signatures *)
fresh_signatures(s, p) == {g \in s.signature_fresh : g.packet_id = p.id}
upper_signatures(s, p) == {g \in s.signature_upper : g.packet_id = p.id}
misc_signatures(s, p) == {g \in s.signature_misc : g.packet_id = p.id}

(* ------------------------------ sync-freshmen -------------------------- *)
(* lines 71-80: insert the new freshmen, update the known ones *)
UpsertFreshmen(fr, csv) ==
    {IF f.rit_username \in DOMAIN csv
        THEN FreshmanRow(f.rit_username, csv[f.rit_username].name, csv[f.rit_username].onfloor)
        ELSE f : f \in fr}
    \cup {FreshmanRow(u, csv[u].name, csv[u].onfloor) :
            u \in {v \in DOMAIN csv : v \notin {f.rit_username : f \in fr}}}

(* lines 83-84: people who are no longer freshmen *)
MarkDeparted(fr, csv) ==
    {IF f.rit_username \notin DOMAIN csv THEN [f EXCEPT !.onfloor = FALSE] ELSE f : f \in fr}

(* line 89: the signatures whose freshman is no longer onfloor *)
StaleFreshSigs(fr, sigs) ==
    {g \in sigs : \E f \in fr : f.rit_username = g.freshman_username /\ ~f.onfloor}

(* the owner of the packet is not left out *)
NewFreshSigsWithOwner(csv, p, collection) ==
    LET current_fresh_sigs == {g.freshman_username : g \in collection}
    IN {[packet_id |-> p.id, freshman_username |-> u, signed |-> FALSE] :
          u \in {v \in DOMAIN csv : v \notin current_fresh_sigs /\ csv[v].onfloor}}

(* lines 95-100: the signatures added for the new onfloor freshmen.        *)
(* collection is packet.fresh_signatures as loaded before the deletes.     *)
(* every on-floor freshman of the roster gets a new signature *)
NewFreshSigsAll(csv, p, collection) ==
    {[packet_id |-> p.id, freshman_username |-> u, signed |-> FALSE] :
        u \in {v \in DOMAIN csv : csv[v].onfloor /\ v # p.freshman_username}}

NewFreshSigs(csv, p, collection) ==
    LET current_fresh_sigs == {g.freshman_username : g \in collection}
    IN {FreshSignature(p.id, u) :
          u \in {v \in DOMAIN csv : v \notin current_fresh_sigs /\ csv[v].onfloor
                                      /\ v # p.freshman_username}}

SyncPacketFreshSigs(fr, csv, p, sigs) ==
    LET mine == {g \in sigs : g.packet_id = p.id}
    IN (sigs \ StaleFreshSigs(fr, mine)) \cup NewFreshSigs(csv, p, mine)

RECURSIVE SyncFreshSigs(_, _, _, _)
SyncFreshSigs(fr, csv, todo, sigs) ==
    IF todo = {} THEN sigs
    ELSE LET p == CHOOSE q \in todo : \A r \in todo : q.id <= r.id
         IN SyncFreshSigs(fr, csv, todo \ {p}, SyncPacketFreshSigs(fr, csv, p, sigs))

(* the signatures are reconciled against the flags read before the update *)
sync_freshmen_stale(s, t, rows) ==
    LET csv == parse_csv(rows)
        fr == MarkDeparted(UpsertFreshmen(s.freshman, csv), csv)
    IN [s EXCEPT !.freshman = fr,
                 !.signature_fresh = SyncFreshSigs(s.freshman, csv, OpenOrFuture(s, t), s.signature_fresh)]

sync_freshmen(s, t, rows) ==
    LET csv == parse_csv(rows)
        fr == MarkDeparted(UpsertFreshmen(s.freshman, csv), csv)
    IN [s EXCEPT !.freshman = fr,
                 !.signature_fresh = SyncFreshSigs(fr, csv, OpenOrFuture(s, t), s.signature_fresh)]

(* ------------------------------ the directory -------------------------- *)
NoRoles ==
    [eboard |-> [m \in Members |-> "None"], rtp |-> {}, three_da |-> {},
     webmaster |-> {}, c_m |-> {}, drink |-> {}]
SomeRoles ==
    [eboard |-> [m \in Members |-> IF m = MemberPool[1] THEN "Chairman" ELSE "None"],
     rtp |-> {MemberPool[1]}, three_da |-> Members \ {MemberPool[1]},
     webmaster |-> {MemberPool[1]}, c_m |-> Members \ {MemberPool[1]}, drink |-> Members]
RoleConfigs == {NoRoles, SomeRoles}

Exclusions ==
    {[intro |-> {}, coop |-> {}, roles |-> NoRoles],
     [intro |-> {}, coop |-> {}, roles |-> SomeRoles],
     [intro |-> {MemberPool[1]}, coop |-> {}, roles |-> SomeRoles],
     [intro |-> {}, coop |-> {MemberPool[2]}, roles |-> SomeRoles]}
Directories ==
    {[active |-> a, intro |-> x.intro, coop |-> x.coop, roles |-> x.roles] :
        a \in SUBSET Members, x \in Exclusions}

ldap_get_eboard_role(d, m) == d.roles.eboard[m]

(* members on co-op are not left out *)
all_upper_with_coop(d) == {m \in d.active : ~(m \in d.intro)}

(* lines 122-123, 167-168: active members that are neither intro members   *)
(* nor on co-op                                                            *)
all_upper(d) == {m \in d.active : ~(m \in d.intro) /\ ~(m \in d.coop)}

(* lines 144-150, 197-203, 210-216: a signature with the cached role flags *)
UpperSignature(pid, m, signed, d) ==
    [packet_id |-> pid, member |-> m, signed |-> signed,
     eboard |-> ldap_get_eboard_role(d, m),
     active_rtp |-> m \in d.roles.rtp,
     three_da |-> m \in d.roles.three_da,
     webmaster |-> m \in d.roles.webmaster,
     c_m |-> m \in d.roles.c_m,
     drink_admin |-> m \in d.roles.drink]

(* ------------------------------ ldap-sync ------------------------------ *)
(* the role state of the signatures is left as it was cached *)
RefreshRolesNone(d, sigs) == sigs

(* the refreshed signatures lose their signed flag *)
RefreshRolesUnsign(d, sigs) ==
    {IF g.member \in all_upper(d) THEN UpperSignature(g.packet_id, g.member, FALSE, d) ELSE g :
        g \in sigs}

(* lines 179-185: refresh the role state of the signatures of members      *)
RefreshRoles(d, sigs) ==
    {IF g.member \in all_upper(d) THEN UpperSignature(g.packet_id, g.member, g.signed, d) ELSE g :
        g \in sigs}

(* line 188: the signatures of accounts that are not active anymore *)
InactiveUpperSigs(d, sigs) == {g \in sigs : g.member \notin all_upper(d)}

(* lines 190-192: only a signed signature is kept, as a MiscSignature *)
MigratedToMisc(p, gone) == {MiscSignature(p.id, g.member) : g \in {h \in gone : h.signed}}

(* no misc signature is migrated back *)
NoReturnedMiscSigs(d, sigs) == {}

(* every misc signature is migrated back, active member or not *)
ReturnedMiscSigsAll(d, sigs) == sigs

(* line 195: the misc signatures of accounts that are now active members *)
ReturnedMiscSigs(d, sigs) == {g \in sigs : g.member \in all_upper(d)}

(* the signature migrated back is not marked signed *)
MigratedToUpperUnsigned(p, d, back) ==
    {[packet_id |-> p.id, member |-> g.member, signed |-> FALSE,
      eboard |-> d.roles.eboard[g.member], active_rtp |-> g.member \in d.roles.rtp,
      three_da |-> g.member \in d.roles.three_da, webmaster |-> g.member \in d.roles.webmaster,
      c_m |-> g.member \in d.roles.c_m, drink_admin |-> g.member \in d.roles.drink] : g \in back}

(* lines 197-204 *)
MigratedToUpper(p, d, back) == {UpperSignature(p.id, g.member, TRUE, d) : g \in back}

(* the new signatures are not tagged with the role flags *)
NewUpperSigsUntagged(p, d, collection) ==
    {[packet_id |-> p.id, member |-> m, signed |-> FALSE, eboard |-> "None", active_rtp |-> FALSE,
      three_da |-> FALSE, webmaster |-> FALSE, c_m |-> FALSE, drink_admin |-> FALSE] :
        m \in {n \in (d.active \ d.intro) \ d.coop : n \notin {g.member : g \in collection}}}

(* lines 208-217: collection is packet.upper_signatures, which still holds *)
(* the rows deleted in bulk and has the rows added by the relationship     *)
NewUpperSigs(p, d, collection) ==
    LET upper_sigs == {g.member : g \in collection}
    IN {UpperSignature(p.id, m, FALSE, d) : m \in {n \in all_upper(d) : n \notin upper_sigs}}

(* the rows each phase of the pass over packet p acts on: phase 2 on the   *)
(* signatures of lapsed members (line 188), phase 3 on the misc signatures *)
(* of returned members, those phase 2 just added included (line 195),     *)
(* phase 4 on the active members still without a signature (line 209)     *)
Phase2Sigs(s, d, p) == InactiveUpperSigs(d, RefreshRoles(d, upper_signatures(s, p)))
MiscAfterPhase2(s, d, p) == misc_signatures(s, p) \cup MigratedToMisc(p, Phase2Sigs(s, d, p))
Phase3Sigs(s, d, p) == ReturnedMiscSigs(d, MiscAfterPhase2(s, d, p))
Phase4Sigs(s, d, p) ==
    NewUpperSigs(p, d, RefreshRoles(d, upper_signatures(s, p)) \cup MigratedToUpper(p, d, Phase3Sigs(s, d, p)))

SyncPacketLdap(s, d, p) ==
    LET refreshed == RefreshRoles(d, upper_signatures(s, p))
        gone == Phase2Sigs(s, d, p)
        misc1 == MiscAfterPhase2(s, d, p)
        back == Phase3Sigs(s, d, p)
        upper4 == ((refreshed \ gone) \cup MigratedToUpper(p, d, back)) \cup Phase4Sigs(s, d, p)
    IN [s EXCEPT !.signature_upper = (s.signature_upper \ upper_signatures(s, p)) \cup upper4,
                 !.signature_misc = (s.signature_misc \ misc_signatures(s, p)) \cup (misc1 \ back)]

RECURSIVE SyncLdapPackets(_, _, _)
SyncLdapPackets(s, d, todo) ==
    IF todo = {} THEN s
    ELSE LET p == CHOOSE q \in todo : \A r \in todo : q.id <= r.id
         IN SyncLdapPackets(SyncPacketLdap(s, d, p), d, todo \ {p})

(* closed packets are synced too *)
AllPackets(s, t) == s.packet

(* line 177: every packet still open *)
LdapSyncPackets(s, t) == OpenOrFuture(s, t)

ldap_sync(s, t, d) == SyncLdapPackets(s, d, LdapSyncPackets(s, t))

(* the work staged when a directory call raises after the packets with an  *)
(* id below k were processed                                               *)
ldap_sync_partial(s, t, d, k) == SyncLdapPackets(s, d, {p \in LdapSyncPackets(s, t) : p.id < k})

(* ------------------------------ create-packets ------------------------- *)
(* only the freshmen on floor get a packet *)
RosterFreshmenOnFloor(s, csv) ==
    {f.rit_username : f \in {g \in s.freshman : g.rit_username \in DOMAIN csv /\ g.onfloor}}

(* line 137: the freshmen of the roster that the store knows *)
RosterFreshmen(s, csv) == {f.rit_username : f \in {g \in s.freshman : g.rit_username \in DOMAIN csv}}

NextId(s) == Cardinality(s.packet) + 1

(* lines 143-151 *)
PacketUpperSigs(pid, d) == {UpperSignature(pid, m, FALSE, d) : m \in all_upper(d)}

(* lines 153-155 *)
PacketFreshSigs(s, pid, owner) == {FreshSignature(pid, u) : u \in {v \in OnFloor(s) : v # owner}}

(* lines 138-139 *)
AddPacket(s, owner, start, end) ==
    [s EXCEPT !.packet = @ \cup {PacketRow(NextId(s), owner, start, end)}]

(* lines 138-155: one iteration of the loop *)
CreatePacket(s, owner, start, end, d) ==
    LET pid == NextId(s)
    IN [AddPacket(s, owner, start, end) EXCEPT
            !.signature_upper = @ \cup PacketUpperSigs(pid, d),
            !.signature_fresh = @ \cup PacketFreshSigs(s, pid, owner)]

(* the store staged after the first k freshmen of the query result; when   *)
(* mailFails, the mail for freshman k + 1 raises right after its packet    *)
(* was added to the session                                                *)
RECURSIVE CreateStaged(_, _, _, _, _, _, _)
CreateStaged(s, order, k, start, end, d, mailFails) ==
    IF k = 0
      THEN IF mailFails THEN AddPacket(s, order[1], start, end) ELSE s
      ELSE CreateStaged(CreatePacket(s, order[1], start, end, d), Tail(order), k - 1,
                        start, end, d, mailFails)

(* lines 117-119 *)
SeasonStart(base_date) == Combine(base_date, packet_start_time)

(* the season is counted from the start time *)
SeasonEndFromStart(base_date) == SeasonStart(base_date) + SeasonDays * HoursPerDay

SeasonEnd(base_date) == Combine(base_date, packet_end_time) + SeasonDays * HoursPerDay

(* every staged change is committed as it is made *)
CommitAlways(committed, staged, raised) == staged

(* lines 102, 157, 219, 294: the session is committed once, at the end of  *)
(* the run; a run that raised never reaches the commit                     *)
Commit(committed, staged, raised) == IF raised THEN committed ELSE staged

(* lines 108-158: the stores a run that nothing interrupts may commit, one *)
(* for each order of the rows of the query of line 137                     *)
create_packets(s, answer, rows, base_date, d) ==
    IF answer # "y" THEN {s}
    ELSE {Commit(s, CreateStaged(s, order, Len(order), SeasonStart(base_date), SeasonEnd(base_date),
                                 d, FALSE), FALSE) :
            order \in {o \in [1..Cardinality(RosterFreshmen(s, parse_csv(rows))) ->
                                 RosterFreshmen(s, parse_csv(rows))] :
                          \A i, j \in DOMAIN o : o[i] = o[j] => i = j}}

(* ------------------------------ revoke / extend ------------------------ *)
by_id(s, packet_id) == CHOOSE p \in s.packet : p.id = packet_id

(* line 293 *)
ExtendEnd(s, packet_id, date) ==
    [s EXCEPT !.packet = {IF p.id = packet_id THEN [p EXCEPT !.end = Combine(date, packet_end_time)] ELSE p :
                            p \in s.packet}]

(* the row is deleted instead of unsigned *)
DeleteUpper(s, packet_id, username) ==
    [s EXCEPT !.signature_upper = {g \in s.signature_upper : ~(g.packet_id = packet_id /\ g.member = username)}]

(* lines 306-309 *)
UnsignUpper(s, packet_id, username) ==
    [s EXCEPT !.signature_upper =
        {IF g.packet_id = packet_id /\ g.member = username THEN [g EXCEPT !.signed = FALSE] ELSE g :
            g \in s.signature_upper}]

(* line 312 *)
MatchingMisc(s, packet_id, username) ==
    {g \in s.signature_misc : g.packet_id = packet_id /\ g.member = username}

DeleteMisc(s, packet_id, username) ==
    [s EXCEPT !.signature_misc = @ \ MatchingMisc(s, packet_id, username)]

(* lines 319-322 *)
UnsignFresh(s, packet_id, username) ==
    [s EXCEPT !.signature_fresh =
        {IF g.packet_id = packet_id /\ g.freshman_username = username THEN [g EXCEPT !.signed = FALSE] ELSE g :
            g \in s.signature_fresh}]

HasUpper(s, packet_id, m) == \E g \in s.signature_upper : g.packet_id = packet_id /\ g.member = m
HasFresh(s, packet_id, u) == \E g \in s.signature_fresh : g.packet_id = packet_id /\ g.freshman_username = u

(* lines 299-325 *)
remove_sig(s, t, packet_id, username, is_member) ==
    IF ~is_open(by_id(s, packet_id), t) THEN s
    ELSE IF is_member
      THEN IF HasUpper(s, packet_id, username)
             THEN UnsignUpper(s, packet_id, username)
             ELSE IF Cardinality(MatchingMisc(s, packet_id, username)) = 1
                    THEN DeleteMisc(s, packet_id, username)
                    ELSE s
      ELSE IF HasFresh(s, packet_id, username)
             THEN UnsignFresh(s, packet_id, username)
             ELSE s

(* ------------------------------ output --------------------------------- *)
MsgExtendClosed == "Packet is already closed so it cannot be extended"
MsgExtended == "Packet successfully extended"
MsgSigClosed == "Packet is already closed so its signatures cannot be modified"
MsgUnsigned == "Successfully unsigned packet"
MsgNotFound == "Failed to unsign packet; could not find signature"
MsgNotOnfloor == "Failed to unsign packet; freshman is not an onfloor"

(* lines 287-296: the last line extend-packet prints *)
extend_packet_output(s, t, packet_id) ==
    IF ~is_open(by_id(s, packet_id), t) THEN MsgExtendClosed ELSE MsgExtended

(* the end is set without looking at the packet being open *)
extend_packet_unchecked(s, t, packet_id, date) == ExtendEnd(s, packet_id, date)

(* lines 285-294 *)
extend_packet(s, t, packet_id, date) ==
    IF ~is_open(by_id(s, packet_id), t) THEN s ELSE ExtendEnd(s, packet_id, date)

(* lines 303, 310, 315, 317, 323, 325: the line remove_sig prints *)
remove_sig_output(s, t, packet_id, username, is_member) ==
    IF ~is_open(by_id(s, packet_id), t) THEN MsgSigClosed
    ELSE IF is_member
      THEN IF HasUpper(s, packet_id, username) \/ Cardinality(MatchingMisc(s, packet_id, username)) = 1
             THEN MsgUnsigned ELSE MsgNotFound
      ELSE IF HasFresh(s, packet_id, username) THEN MsgUnsigned ELSE MsgNotOnfloor

(* ------------------------------ history -------------------------------- *)
(* lapsed[pid, m]: the signed value of the UpperSignature of m on packet   *)
(* pid that an ldap-sync run removed because m was not an active member,   *)
(* until m is synced back or the retained signature is revoked             *)
NoLapse == [k \in (1..MaxPackets) \X Members |-> "none"]

LapsedAfterSync(s, t, d) ==
    [k \in (1..MaxPackets) \X Members |->
        IF \E p \in LdapSyncPackets(s, t) : p.id = k[1]
          THEN IF k[2] \in all_upper(d) THEN "none"
               ELSE IF \E g \in s.signature_upper : g.packet_id = k[1] /\ g.member = k[2] /\ g.signed
                      THEN "signed"
               ELSE IF HasUpper(s, k[1], k[2]) THEN "unsigned"
               ELSE lapsed[k]
          ELSE lapsed[k]]

(* ------------------------------ actions -------------------------------- *)
Init ==
    /\ db = EmptyStore
    /\ now = 0
    /\ lapsed = NoLapse

(* the clock: time only moves forward *)
Tick ==
    /\ now + TickHours <= MaxTicks * TickHours
    /\ now' = now + TickHours
    /\ UNCHANGED <<db, lapsed>>

SyncFreshmen(rows) ==
    /\ db' = Commit(db, sync_freshmen(db, now, rows), FALSE)
    /\ UNCHANGED <<now, lapsed>>

Orders(S) == {o \in [1..Cardinality(S) -> S] : \A i, j \in DOMAIN o : o[i] = o[j] => i = j}

(* lines 112-114: anything but 'y' ends the command *)
CreatePacketsDeclined(answer) ==
    /\ answer # "y"
    /\ UNCHANGED vars

(* lines 116-157; order is the order of the rows of the query of line 137, *)
(* and when mailFails the mail for row k + 1 raises                        *)
CreatePackets(answer, rows, base_date, d, mailFails) ==
    /\ answer = "y"
    /\ Cardinality(db.packet) + Cardinality(RosterFreshmen(db, parse_csv(rows))) <= MaxPackets
    /\ \E order \in Orders(RosterFreshmen(db, parse_csv(rows))) :
         \E k \in 0..Len(order) :
            /\ IF mailFails THEN k < Len(order) ELSE k = Len(order)
            /\ db' = Commit(db, CreateStaged(db, order, k, SeasonStart(base_date),
                                             SeasonEnd(base_date), d, mailFails), mailFails)
    /\ UNCHANGED <<now, lapsed>>

LdapSync(d) ==
    /\ db' = Commit(db, ldap_sync(db, now, d), FALSE)
    /\ lapsed' = LapsedAfterSync(db, now, d)
    /\ UNCHANGED now

(* a directory call raises in the pass over packet k, after the packets    *)
(* with an id below k                                                      *)
LdapSyncRaises(d, k) ==
    /\ \E p \in LdapSyncPackets(db, now) : p.id = k
    /\ db' = Commit(db, ldap_sync_partial(db, now, d, k), TRUE)
    /\ UNCHANGED <<now, lapsed>>

(* lines 228-276: the report reads the store and writes none of it *)
FetchResults(use_csv, date) ==
    /\ UNCHANGED vars

ExtendPacket(packet_id, date) ==
    /\ \E p \in db.packet : p.id = packet_id
    /\ db' = extend_packet(db, now, packet_id, date)
    /\ UNCHANGED <<now, lapsed>>

RemoveMemberSig(packet_id, member) ==
    /\ \E p \in db.packet : p.id = packet_id
    /\ db' = remove_sig(db, now, packet_id, member, TRUE)
    /\ lapsed' = IF db'.signature_misc # db.signature_misc
                   THEN [lapsed EXCEPT ![<<packet_id, member>>] = "none"] ELSE lapsed
    /\ UNCHANGED now

RemoveFreshmanSig(packet_id, freshman) ==
    /\ \E p \in db.packet : p.id = packet_id
    /\ db' = remove_sig(db, now, packet_id, freshman, FALSE)
    /\ UNCHANGED <<now, lapsed>>

(* a member or a freshman signs an open packet (the web application) *)
SignUpper(packet_id, member) ==
    /\ \E g \in db.signature_upper :
          /\ g.packet_id = packet_id /\ g.member = member /\ ~g.signed
          /\ is_open(by_id(db, packet_id), now)
          /\ db' = [db EXCEPT !.signature_upper = (@ \ {g}) \cup {[g EXCEPT !.signed = TRUE]}]
    /\ UNCHANGED <<now, lapsed>>

SignFresh(packet_id, freshman) ==
    /\ \E g \in db.signature_fresh :
          /\ g.packet_id = packet_id /\ g.freshman_username = freshman /\ ~g.signed
          /\ is_open(by_id(db, packet_id), now)
          /\ db' = [db EXCEPT !.signature_fresh = (@ \ {g}) \cup {[g EXCEPT !.signed = TRUE]}]
    /\ UNCHANGED <<now, lapsed>>

PacketIds == 1..MaxPackets

(* the roster every freshman of which is on floor, and the directory with  *)
(* every member active                                                     *)
FullRoster == [i \in 1..NumFreshmen |->
                 <<Cell(0, "Alice", 0), Cell(0, "TRUE", 0), Cell(0, "x", 0), Cell(0, UsernamePool[i], 0)>>]
FullDirectory == [active |-> Members, intro |-> {}, coop |-> {}, roles |-> NoRoles]
NoDirectory == [active |-> {}, intro |-> {}, coop |-> {}, roles |-> NoRoles]
SmallRosters == {FullRoster, SubSeq(FullRoster, 1, 1)}
SmallDirectories == {FullDirectory, [FullDirectory EXCEPT !.active = {MemberPool[1]}]}

(* every command, on a few rosters and directories *)
Next ==
    \/ Tick
    \/ \E rows \in SmallRosters : SyncFreshmen(rows)
    \/ \E answer \in {"n", ""} : CreatePacketsDeclined(answer)
    \/ \E rows \in SmallRosters, base_date \in StartDates, d \in SmallDirectories, mailFails \in BOOLEAN :
            CreatePackets("y", rows, base_date, d, mailFails)
    \/ \E d \in SmallDirectories : LdapSync(d)
    \/ \E d \in SmallDirectories, k \in PacketIds : LdapSyncRaises(d, k)
    \/ \E use_csv \in BOOLEAN, date \in ExtendDates : FetchResults(use_csv, date)
    \/ \E packet_id \in PacketIds, date \in ExtendDates : ExtendPacket(packet_id, date)
    \/ \E packet_id \in PacketIds, member \in Members : RemoveMemberSig(packet_id, member)
    \/ \E packet_id \in PacketIds, freshman \in Usernames : RemoveFreshmanSig(packet_id, freshman)
    \/ \E packet_id \in PacketIds, member \in Members : SignUpper(packet_id, member)
    \/ \E packet_id \in PacketIds, freshman \in Usernames : SignFresh(packet_id, freshman)

Spec == Init /\ [][Next]_vars

(* the roster commands, on every roster *)
NextRoster ==
    \/ Tick
    \/ \E rows \in Rosters : SyncFreshmen(rows)
    \/ \E rows \in Rosters, base_date \in StartDates : CreatePackets("y", rows, base_date, NoDirectory, FALSE)
    \/ \E packet_id \in PacketIds, freshman \in Usernames : RemoveFreshmanSig(packet_id, freshman)
    \/ \E packet_id \in PacketIds, freshman \in Usernames : SignFresh(packet_id, freshman)

SpecRoster == Init /\ [][NextRoster]_vars

(* the directory commands, on every directory *)
NextLdap ==
    \/ Tick
    \/ SyncFreshmen(FullRoster)
    \/ \E rows \in SmallRosters, base_date \in StartDates, d \in Directories, mailFails \in BOOLEAN :
            CreatePackets("y", rows, base_date, d, mailFails)
    \/ \E d \in Directories : LdapSync(d)
    \/ \E d \in Directories, k \in PacketIds : LdapSyncRaises(d, k)
    \/ \E packet_id \in PacketIds, member \in Members : RemoveMemberSig(packet_id, member)
    \/ \E packet_id \in PacketIds, member \in Members : SignUpper(packet_id, member)

SpecLdap == Init /\ [][NextLdap]_vars

(* ------------------------------ properties ----------------------------- *)
FreshSigners(s, p) == {g.freshman_username : g \in fresh_signatures(s, p)}
UpperSigners(s, p) == {g.member : g \in upper_signatures(s, p)}
MiscSigners(s, p) == {g.member : g \in misc_signatures(s, p)}
Open(s, t) == {p \in s.packet : p.end > t}
Closed(s, t) == {p \in s.packet : t >= p.end}

(* C1: after a sync-freshmen run, from any reachable store and for any     *)
(* roster file, the freshmen with a FreshSignature on a packet whose end   *)
(* is in the future are exactly the freshmen whose on-floor flag is true,  *)
(* minus the owner of the packet.                                          *)
C1_FreshSigsMirrorOnFloor ==
    \A rows \in Rosters :
        LET after == sync_freshmen(db, now, rows)
        IN \A p \in Open(after, now) :
              FreshSigners(after, p) =
                 {f.rit_username : f \in {g \in after.freshman : g.onfloor}} \ {p.freshman_username}

(* a store where one run of sync-freshmen removes a signature from an open *)
(* packet and adds one to another                                          *)
C1_Witness ==
    \E rows \in Rosters :
        LET after == sync_freshmen(db, now, rows)
        IN \E p, q \in Open(db, now) :
              /\ FreshSigners(db, p) \ FreshSigners(after, p) # {}
              /\ FreshSigners(after, q) \ FreshSigners(db, q) # {}

(* C4: sync-freshmen is idempotent: from any reachable store and for any   *)
(* roster file, a second run with the same file leaves the Freshman and    *)
(* FreshSignature rows of the first run.                                   *)
C4_SyncFreshmenIdempotent ==
    \A rows \in Rosters :
        LET once == sync_freshmen(db, now, rows)
            twice == sync_freshmen(once, now, rows)
        IN /\ twice.freshman = once.freshman
           /\ twice.signature_fresh = once.signature_fresh

(* a store that the first run changes: a freshman leaves the floor and a   *)
(* signed signature of an open packet goes with them                       *)
C4_Witness ==
    \E rows \in Rosters :
        LET once == sync_freshmen(db, now, rows)
        IN /\ once.freshman # db.freshman
           /\ \E g \in db.signature_fresh : g.signed /\ g \notin once.signature_fresh

(* the members the directory holds eligible to sign as upperclassmen *)
Eligible(d) == (d.active \ d.intro) \ d.coop

RowsOf(sigs, packet_id, m) == {g \in sigs : g.packet_id = packet_id /\ g.member = m}

(* how often m is represented on the packet, over both tables *)
Representations(s, packet_id, m) ==
    Cardinality(RowsOf(s.signature_upper, packet_id, m)) + Cardinality(RowsOf(s.signature_misc, packet_id, m))

(* C2, as stated: after an ldap-sync run every signer of an open packet,   *)
(* counting the members who had an UpperSignature (signed or not) or a     *)
(* MiscSignature before the run, is represented in exactly one of          *)
(* UpperSignature and MiscSignature.                                       *)
C2_AsStated ==
    \A d \in Directories :
        LET after == ldap_sync(db, now, d)
        IN \A p \in Open(db, now) : \A m \in UpperSigners(db, p) \cup MiscSigners(db, p) :
              Representations(after, p.id, m) = 1

(* C2, amended: after an ldap-sync run no member is represented on an open *)
(* packet more than once; a member who had a signature before the run has  *)
(* exactly one after it, except that an unsigned UpperSignature of a member *)
(* who is not eligible at sync time is deleted and leaves no row at all.    *)
C2_AtMostOneRepresentation ==
    \A d \in Directories :
        LET after == ldap_sync(db, now, d)
        IN \A p \in Open(db, now) : \A m \in Members :
              LET dropped == /\ m \notin Eligible(d)
                             /\ \E g \in RowsOf(db.signature_upper, p.id, m) : ~g.signed
              IN /\ Representations(after, p.id, m) <= 1
                 /\ m \in UpperSigners(db, p) \cup MiscSigners(db, p) =>
                       Representations(after, p.id, m) = IF dropped THEN 0 ELSE 1

(* an open packet that a run has taken both kinds of signature from: the   *)
(* unsigned one of a lapsed member left no row, the signed one a           *)
(* MiscSignature                                                           *)
C2_Witness ==
    \E p \in Open(db, now) : \E m, n \in Members :
        /\ lapsed[<<p.id, m>>] = "unsigned" /\ Representations(db, p.id, m) = 0
        /\ lapsed[<<p.id, n>>] = "signed" /\ m # n
        /\ RowsOf(db.signature_misc, p.id, n) # {} /\ RowsOf(db.signature_upper, p.id, n) = {}

(* C3: a member whose UpperSignature on an open packet was removed by an   *)
(* ldap-sync run because the member was not eligible, and who is eligible  *)
(* at a later run, has after that run one UpperSignature with the signed   *)
(* value the removed one had (no remove-member-sig having revoked the      *)
(* retained signature in between).                                         *)
C3_SignedSurvivesRoundTrip ==
    \A d \in Directories :
        LET after == ldap_sync(db, now, d)
        IN \A p \in Open(db, now) : \A m \in Eligible(d) :
              lapsed[<<p.id, m>>] # "none" =>
                 /\ Cardinality(RowsOf(after.signature_upper, p.id, m)) = 1
                 /\ \A g \in RowsOf(after.signature_upper, p.id, m) :
                       g.signed = (lapsed[<<p.id, m>>] = "signed")

(* between the two runs: a signed and an unsigned signature were removed   *)
(* from an open packet, and a directory makes both members eligible again  *)
C3_Witness ==
    \E p \in Open(db, now) : \E m, n \in Members : \E d \in Directories :
        /\ lapsed[<<p.id, m>>] = "signed" /\ lapsed[<<p.id, n>>] = "unsigned"
        /\ {m, n} \subseteq Eligible(d)
        /\ RowsOf(ldap_sync(db, now, d).signature_upper, p.id, m) # {}

(* C5: after an ldap-sync run the members with an UpperSignature on an     *)
(* open packet are exactly the directory members that are active, not      *)
(* intro members and not on co-op.                                         *)
C5_UpperSigsMirrorDirectory ==
    \A d \in Directories :
        LET after == ldap_sync(db, now, d)
        IN \A p \in Open(after, now) : UpperSigners(after, p) = Eligible(d)

(* an open packet whose signers a run both removes from and adds to *)
C5_Witness ==
    \E d \in Directories : \E p \in Open(db, now) :
        LET after == ldap_sync(db, now, d)
        IN /\ UpperSigners(db, p) \ UpperSigners(after, p) # {}
           /\ UpperSigners(after, p) \ UpperSigners(db, p) # {}
           /\ d.coop \cap d.active # {}

C6_AsStated ==
    \A p \in db.packet :
        /\ ~is_open(p, now) =>
              \A date \in ExtendDates :
                 /\ extend_packet(db, now, p.id, date) = db
                 /\ extend_packet_output(db, now, p.id) = MsgExtendClosed
        /\ \A u \in Usernames :
              FreshSigners(db, p) \cap {u} = {} =>
                 /\ remove_sig(db, now, p.id, u, FALSE) = db
                 /\ remove_sig_output(db, now, p.id, u, FALSE) = MsgNotOnfloor
        /\ \A m \in Members :
              Representations(db, p.id, m) = 0 =>
                 /\ remove_sig(db, now, p.id, m, TRUE) = db
                 /\ remove_sig_output(db, now, p.id, m, TRUE) = MsgNotFound

(* C6, amended: a rejected command changes nothing; extend-packet on a     *)
(* packet that is not open reports that it is closed; on an open packet    *)
(* remove-freshman-sig for a freshman with no FreshSignature reports 'not  *)
(* on-floor' and remove-member-sig for a member with no signature reports  *)
(* that none was found, while on a closed packet both report that the      *)
(* packet is closed.                                                       *)
C6_RejectionMutatesNothing ==
    \A p \in db.packet :
        /\ ~is_open(p, now) =>
              \A date \in ExtendDates :
                 /\ extend_packet(db, now, p.id, date) = db
                 /\ extend_packet_output(db, now, p.id) = MsgExtendClosed
        /\ \A u \in Usernames :
              FreshSigners(db, p) \cap {u} = {} =>
                 /\ remove_sig(db, now, p.id, u, FALSE) = db
                 /\ remove_sig_output(db, now, p.id, u, FALSE) =
                       IF now < p.end THEN MsgNotOnfloor ELSE MsgSigClosed
        /\ \A m \in Members :
              Representations(db, p.id, m) = 0 =>
                 /\ remove_sig(db, now, p.id, m, TRUE) = db
                 /\ remove_sig_output(db, now, p.id, m, TRUE) =
                       IF now < p.end THEN MsgNotFound ELSE MsgSigClosed

(* a closed packet with signatures that an extension would reopen, beside  *)
(* an open packet lacking the signature of a freshman and of a member      *)
C6_Witness ==
    /\ \E p \in Closed(db, now) :
          /\ upper_signatures(db, p) # {}
          /\ \E date \in ExtendDates : ExtendEnd(db, p.id, date) # db
    /\ \E q \in Open(db, now) : \E u \in Usernames, m \in Members :
          /\ u # q.freshman_username /\ u \notin FreshSigners(db, q)
          /\ Representations(db, q.id, m) = 0

(* the rows of a packet: the packet's own and its signatures' *)
PacketRows(s, p) ==
    <<{q \in s.packet : q.id = p.id}, upper_signatures(s, p), fresh_signatures(s, p), misc_signatures(s, p)>>

(* C7: once a packet is closed no command changes its end timestamp, its   *)
(* signature sets, or the signed flag or role flags of any signature.      *)
C7_ClosedPacketFrozen ==
    [][\A p \in Closed(db, now) : PacketRows(db', p) = PacketRows(db, p)]_vars

(* a closed packet holding signatures of the three kinds, a member of      *)
(* which the directory no longer lists                                     *)
C7_Witness ==
    \E p \in Closed(db, now) :
        /\ fresh_signatures(db, p) # {} /\ misc_signatures(db, p) # {}
        /\ \E g \in upper_signatures(db, p) : g.signed
        /\ \E q \in Open(db, now) : UpperSigners(db, q) # UpperSigners(db, p)

(* C8: no freshman owns two packets with the same start and end            *)
(* timestamps, after any sequence of create-packets runs.                  *)
C8_OnePacketPerSeason ==
    \A p, q \in db.packet :
        (p.freshman_username = q.freshman_username /\ p.start = q.start /\ p.end = q.end) => p.id = q.id

(* C10: on an open packet remove-member-sig clears the signed flag of the  *)
(* member's UpperSignature and keeps the row, touching no MiscSignature;   *)
(* with no UpperSignature it deletes the member's one MiscSignature; with  *)
(* neither it changes nothing.  remove-freshman-sig clears the signed flag *)
(* of the freshman's FreshSignature and keeps the row.  No row of another  *)
(* packet or signer changes.                                               *)
C10_RemovePriority ==
    \A p \in Open(db, now) :
        /\ \A m \in Members :
              LET after == remove_sig(db, now, p.id, m, TRUE)
                  mine == RowsOf(db.signature_upper, p.id, m)
                  misc == RowsOf(db.signature_misc, p.id, m)
              IN /\ after.freshman = db.freshman /\ after.packet = db.packet
                 /\ after.signature_fresh = db.signature_fresh
                 /\ after.signature_upper \ RowsOf(after.signature_upper, p.id, m) = db.signature_upper \ mine
                 /\ after.signature_misc \ RowsOf(after.signature_misc, p.id, m) = db.signature_misc \ misc
                 /\ IF mine # {}
                      THEN /\ RowsOf(after.signature_upper, p.id, m) = {[g EXCEPT !.signed = FALSE] : g \in mine}
                           /\ RowsOf(after.signature_misc, p.id, m) = misc
                      ELSE /\ RowsOf(after.signature_upper, p.id, m) = {}
                           /\ RowsOf(after.signature_misc, p.id, m) =
                                 IF Cardinality(misc) = 1 THEN {} ELSE misc
        /\ \A u \in Usernames :
              LET after == remove_sig(db, now, p.id, u, FALSE)
                  mine == {g \in db.signature_fresh : g.packet_id = p.id /\ g.freshman_username = u}
              IN /\ after.freshman = db.freshman /\ after.packet = db.packet
                 /\ after.signature_upper = db.signature_upper /\ after.signature_misc = db.signature_misc
                 /\ after.signature_fresh = (db.signature_fresh \ mine) \cup {[g EXCEPT !.signed = FALSE] : g \in mine}

(* an open packet with a signed UpperSignature, a MiscSignature and a      *)
(* signed FreshSignature to revoke, beside another packet with signatures  *)
C10_Witness ==
    \E p \in Open(db, now) :
        /\ \E g \in upper_signatures(db, p) : g.signed
        /\ misc_signatures(db, p) # {}
        /\ \E g \in fresh_signatures(db, p) : g.signed
        /\ \E q \in db.packet : q.id # p.id /\ upper_signatures(db, q) # {} /\ misc_signatures(db, q) # {}

(* the usernames a roster file names, and the last row it has for one *)
RosterUsernames(rows) == {rows[i][4].text : i \in DOMAIN rows}
LastRow(rows, u) ==
    rows[CHOOSE i \in DOMAIN rows :
            rows[i][4].text = u /\ \A j \in DOMAIN rows : rows[j][4].text = u => j <= i]

(* C11: after sync-freshmen every username of the roster has exactly one   *)
(* Freshman row, with the name and the on-floor flag of the roster (of its *)
(* last row for that username; on-floor is true only for the text 'TRUE'); *)
(* every freshman known before and absent from the roster keeps its row,   *)
(* with on-floor false; no row is deleted and usernames are unique.  The   *)
(* example roster, synced into an empty store, gives the two rows          *)
(* (alice1, Alice, true) and (bob1, Bob, false).                           *)
C11_FreshmenUpserted ==
    /\ \A rows \in Rosters :
          LET after == sync_freshmen(db, now, rows)
          IN /\ \A u \in RosterUsernames(rows) :
                   {f \in after.freshman : f.rit_username = u} =
                      {[rit_username |-> u, name |-> LastRow(rows, u)[1].text,
                        onfloor |-> LastRow(rows, u)[2].text = "TRUE"]}
             /\ \A f \in db.freshman :
                   f.rit_username \notin RosterUsernames(rows) =>
                      [rit_username |-> f.rit_username, name |-> f.name, onfloor |-> FALSE] \in after.freshman
             /\ {f.rit_username : f \in db.freshman} \subseteq {f.rit_username : f \in after.freshman}
             /\ Cardinality(after.freshman) = Cardinality({f.rit_username : f \in after.freshman})
    /\ sync_freshmen(EmptyStore, now, ExampleRoster).freshman =
          {[rit_username |-> "alice1", name |-> "Alice", onfloor |-> TRUE],
           [rit_username |-> "bob1", name |-> "Bob", onfloor |-> FALSE]}

(* a store with two on-floor freshmen, one of which a roster renames while *)
(* the other is absent from it, and a roster row whose flag is 'true'      *)
C11_Witness ==
    \E rows \in Rosters :
        LET after == sync_freshmen(db, now, rows)
        IN /\ \E f \in db.freshman : \E g \in after.freshman :
                 f.rit_username = g.rit_username /\ f.name # g.name
           /\ \E f \in db.freshman : f.onfloor /\ f.rit_username \notin RosterUsernames(rows)
           /\ \E r \in Rosters : \E i \in DOMAIN r :
                 /\ r[i][2].text = "true"
                 /\ \E f \in db.freshman : f.rit_username = r[i][4].text /\ f.onfloor

PacketsOf(s, u) == {p \in s.packet : p.freshman_username = u}

MembersOf(sigs) == {g.member : g \in sigs}

(* C13: within one ldap-sync pass over a packet no signer is acted on by   *)
(* both phase 2 and phase 3: a MiscSignature phase 2 creates is not        *)
(* migrated back by phase 3 and is there after the pass, and an            *)
(* UpperSignature phase 3 creates is for no member phase 2 deleted, is not *)
(* duplicated by phase 4 and is there, alone and signed, after the pass.   *)
C13_PhasesDisjoint ==
    \A d \in Directories : \A p \in Open(db, now) :
        LET after == SyncPacketLdap(db, d, p)
            two == MembersOf(Phase2Sigs(db, d, p))
            three == MembersOf(Phase3Sigs(db, d, p))
            four == MembersOf(Phase4Sigs(db, d, p))
        IN /\ two \cap three = {}
           /\ three \cap four = {}
           /\ \A g \in Phase2Sigs(db, d, p) :
                 /\ RowsOf(after.signature_upper, p.id, g.member) = {}
                 /\ g.signed => Cardinality(RowsOf(after.signature_misc, p.id, g.member)) = 1
           /\ \A m \in three :
                 /\ RowsOf(after.signature_misc, p.id, m) = {}
                 /\ Cardinality(RowsOf(after.signature_upper, p.id, m)) = 1
                 /\ \A g \in RowsOf(after.signature_upper, p.id, m) : g.signed

(* one pass over an open packet in which phase 2 turns the signed          *)
(* signature of a lapsed member into a MiscSignature, phase 3 brings back  *)
(* the MiscSignature of another member                                     *)
C13_Witness ==
    \E d \in Directories : \E p \in Open(db, now) :
        /\ MigratedToMisc(p, Phase2Sigs(db, d, p)) # {}
        /\ Phase3Sigs(db, d, p) # {}

(* the role flags the directory gives a member *)
DirectoryFlags(d, m) ==
    <<d.roles.eboard[m], m \in d.roles.rtp, m \in d.roles.three_da, m \in d.roles.webmaster,
      m \in d.roles.c_m, m \in d.roles.drink>>
CachedFlags(g) == <<g.eboard, g.active_rtp, g.three_da, g.webmaster, g.c_m, g.drink_admin>>

(* C14: after an ldap-sync run every UpperSignature of every open packet   *)
(* carries the role flags the directory gives its member at sync time,     *)
(* whether the signature was there before, was migrated back from a        *)
(* MiscSignature or is new; a MiscSignature carries no role flags.         *)
C14_RoleFlagsFresh ==
    \A d \in Directories :
        LET after == ldap_sync(db, now, d)
        IN /\ \A p \in Open(after, now) : \A g \in upper_signatures(after, p) :
                 CachedFlags(g) = DirectoryFlags(d, g.member)
           /\ \A g \in after.signature_misc : DOMAIN g = {"packet_id", "member"}

(* a run that rewrites the cached flags of a signature and migrates a      *)
(* MiscSignature back on an open packet, and a run that adds a signature   *)
(* with role flags set                                                     *)
C14_Witness ==
    /\ \E d \in Directories : \E p \in Open(db, now) :
          /\ \E g \in upper_signatures(db, p) :
                g.member \in Eligible(d) /\ CachedFlags(g) # DirectoryFlags(d, g.member)
          /\ \E g \in Phase3Sigs(db, d, p) : DirectoryFlags(d, g.member)[1] # "None"
    /\ \E d \in Directories : \E p \in Open(db, now) :
          \E g \in Phase4Sigs(db, d, p) : g.three_da

(* C16: ldap-sync leaves the signed flag of every UpperSignature of an     *)
(* open packet whose member is active, not an intro member and not on      *)
(* co-op at sync time, and changes no Freshman row, no FreshSignature row  *)
(* and no packet.                                                          *)
C16_SyncKeepsSigned ==
    \A d \in Directories :
        LET after == ldap_sync(db, now, d)
        IN /\ \A p \in Open(db, now) : \A m \in Eligible(d) :
                 RowsOf(db.signature_upper, p.id, m) # {} =>
                    {g.signed : g \in RowsOf(after.signature_upper, p.id, m)} =
                       {g.signed : g \in RowsOf(db.signature_upper, p.id, m)}
           /\ after.freshman = db.freshman
           /\ after.signature_fresh = db.signature_fresh
           /\ after.packet = db.packet

(* a run that rewrites the role flags of a signed signature of an eligible *)
(* member, on a packet that has freshman signatures                        *)
C16_Witness ==
    \E d \in Directories : \E p \in Open(db, now) :
        /\ \E g \in upper_signatures(db, p) :
              g.signed /\ g.member \in Eligible(d) /\ CachedFlags(g) # DirectoryFlags(d, g.member)
        /\ \E g \in fresh_signatures(db, p) : TRUE
        /\ ldap_sync(db, now, d).signature_misc # db.signature_misc

(* C17: ldap-sync is idempotent: a second run against the same directory   *)
(* leaves the UpperSignature and MiscSignature rows of the first, creating *)
(* and deleting nothing.                                                   *)
C17_LdapSyncIdempotent ==
    \A d \in Directories :
        LET once == ldap_sync(db, now, d)
            twice == ldap_sync(once, now, d)
        IN /\ twice.signature_upper = once.signature_upper
           /\ twice.signature_misc = once.signature_misc
           /\ \A p \in Open(once, now) :
                 Phase2Sigs(once, d, p) = {} /\ Phase3Sigs(once, d, p) = {} /\ Phase4Sigs(once, d, p) = {}

TimeOfDay(t) == t % HoursPerDay
DateOf(t) == t \div HoursPerDay
EnteredDates == StartDates \cup ExtendDates

(* C15: every packet starts at 19:00 and ends at 21:00; a packet created   *)
(* with start date D starts on D and ends on D + 14; extend-packet on an   *)
(* open packet sets its end to the entered date at 21:00, whatever the     *)
(* date, and changes nothing else.                                         *)
C15_PacketTimes ==
    /\ \A p \in db.packet : TimeOfDay(p.start) = 19 /\ TimeOfDay(p.end) = 21
    /\ \A rows \in SmallRosters, base_date \in EnteredDates :
          \A after \in create_packets(db, "y", rows, base_date, FullDirectory) :
             \A p \in after.packet \ db.packet :
                /\ DateOf(p.start) = base_date /\ TimeOfDay(p.start) = 19
                /\ DateOf(p.end) = base_date + 14 /\ TimeOfDay(p.end) = 21
    /\ \A p \in Open(db, now), date \in EnteredDates :
          LET after == extend_packet(db, now, p.id, date)
          IN /\ \A q \in db.packet \ {p} : q \in after.packet
             /\ Cardinality(after.packet) = Cardinality(db.packet)
             /\ \E q \in after.packet :
                   /\ [q EXCEPT !.end = p.end] = p
                   /\ DateOf(q.end) = date /\ TimeOfDay(q.end) = 21
             /\ [after EXCEPT !.packet = db.packet] = db

(* a packet extended to a date before its own start and before the clock,  *)
(* beside a packet that still ends fourteen days after its start           *)
C15_Witness ==
    /\ \E p \in db.packet : p.end < p.start /\ p.end < now
    /\ \E p \in db.packet : DateOf(p.end) = DateOf(p.start) + 14
    /\ \E p \in Open(db, now) : \E date \in EnteredDates : Combine(date, packet_end_time) < p.end

FreshRowsOf(sigs, pid, u) == {g \in sigs : g.packet_id = pid /\ g.freshman_username = u}
OnFloorIn(rows, u) == u \in RosterUsernames(rows) /\ LastRow(rows, u)[2].text = "TRUE"

(* a freshman who has a FreshSignature on an open packet and is on floor   *)
(* in the roster keeps that row, with its signed flag                      *)
SignedKept(before, after, rows) ==
    \A p \in Open(before, now) : \A u \in Usernames :
        FreshRowsOf(before.signature_fresh, p.id, u) # {} /\ OnFloorIn(rows, u) =>
           FreshRowsOf(after.signature_fresh, p.id, u) = FreshRowsOf(before.signature_fresh, p.id, u)

(* C18 as stated: sync-freshmen keeps the signed flag of every freshman    *)
(* who stays on floor, and a freshman whose signed FreshSignature one run  *)
(* removed and whom a later roster puts on floor again gets a              *)
(* FreshSignature that is signed.                                          *)
C18_AsStated ==
    \A rows1, rows2 \in Rosters :
        LET s1 == sync_freshmen(db, now, rows1)
            s2 == sync_freshmen(s1, now, rows2)
        IN /\ SignedKept(db, s1, rows1)
           /\ \A p \in Open(db, now) : \A u \in Usernames :
                 /\ \E g \in FreshRowsOf(db.signature_fresh, p.id, u) : g.signed
                 /\ FreshRowsOf(s1.signature_fresh, p.id, u) = {}
                 /\ FreshRowsOf(s2.signature_fresh, p.id, u) # {}
                 => \A g \in FreshRowsOf(s2.signature_fresh, p.id, u) : g.signed

(* C18: sync-freshmen keeps the FreshSignature, with its signed flag, of   *)
(* every freshman who stays on floor; it removes the FreshSignature of a   *)
(* known freshman who is not on floor in the roster, signed or not, and    *)
(* every FreshSignature it adds is unsigned: a freshman who returns to the *)
(* floor gets an unsigned signature whatever the flag was before.          *)
C18_SignedKeptWhileOnFloor ==
    \A rows \in Rosters :
        LET after == sync_freshmen(db, now, rows)
        IN /\ SignedKept(db, after, rows)
           /\ \A p \in Open(db, now) : \A u \in Usernames :
                 /\ ~OnFloorIn(rows, u) /\ (\E f \in db.freshman : f.rit_username = u)
                       => FreshRowsOf(after.signature_fresh, p.id, u) = {}
                 /\ FreshRowsOf(db.signature_fresh, p.id, u) = {}
                       => \A g \in FreshRowsOf(after.signature_fresh, p.id, u) : ~g.signed

(* a signed FreshSignature on an open packet that one roster removes and   *)
(* the next gives back unsigned, beside a signed one that the first roster *)
(* keeps                                                                   *)
C18_Witness ==
    \E rows1, rows2 \in Rosters :
        LET s1 == sync_freshmen(db, now, rows1)
            s2 == sync_freshmen(s1, now, rows2)
        IN \E p \in Open(db, now) : \E u \in Usernames :
              /\ \E g \in FreshRowsOf(db.signature_fresh, p.id, u) : g.signed
              /\ FreshRowsOf(s1.signature_fresh, p.id, u) = {}
              /\ FreshRowsOf(s2.signature_fresh, p.id, u) = {[packet_id |-> p.id, freshman_username |-> u,
                                                                signed |-> FALSE]}
              /\ \E q \in Open(db, now) : \E g \in fresh_signatures(db, q) :
                    g.signed /\ g \in s1.signature_fresh

(* a first run that deletes a signature, migrates one and adds one with    *)
(* role flags                                                              *)
C17_Witness ==
    \E d \in Directories : \E p, q \in Open(db, now) :
        /\ MigratedToMisc(p, Phase2Sigs(db, d, p)) # {}
        /\ \E g \in Phase4Sigs(db, d, q) : g.eboard # "None"
        /\ \E g \in Phase2Sigs(db, d, q) : ~g.signed
====
